---- MODULE Spec2Model ----
(***************************************************************************)
(* A model of the method-dispatch and code-object core of the runtime:     *)
(* CompiledCode (internalize, the three dispatch executors, the            *)
(* specialization cache, breakpoints, dup) as threads stepping through the *)
(* statements of src/vm/builtin/method_table.hpp, and the MethodTable.     *)
(***************************************************************************)
EXTENDS Integers, Sequences, FiniteSets, TLC

\* ------------------------------------------------------------- bounds
MaxThreads == 2
MaxCodes == 2
\* Calls made in one behaviour: concurrent, breakpoint and cache specifications.
MaxOps == 3
MaxOpsSeq == 5
MaxOpsCache == 5
\* MachineCode::cMaxSpecializations, scaled down so that the cache fills.
cMaxSpecializations == 2
MaxClassId == 3
MaxSerial == 2
MaxIp == 2
\* The method table: names, in the order the interner hands them out; the
\* names that are stored again, aliased or removed; such calls per behaviour.
MaxNames == 17
MaxHotName == 3
MaxExtra == 2
MaxMethods == 2
\* Threads that look names up while the writer stores.
MaxReaders == 1
\* The lines table: its pairs, the ips and the line numbers in it.
MaxPairs == 3
MaxLineIp == 3
MaxLineNo == 3
METHODTABLE_MIN_SIZE == 16

AllThreads == 1..MaxThreads
Codes == 1..MaxCodes
ClassIds == 1..MaxClassId
Serials == 1..MaxSerial
Ips == 0..MaxIp
Slots == 0..(cMaxSpecializations - 1)
\* Executors the JIT hands to add_specialized / set_unspecialized.
JitExecs == {"E1", "E2"}

VARIABLES
  threads,   \* the threads that call into the core
  code,      \* the CompiledCode objects
  mcode,     \* the MachineCode objects, in order of construction
  bptab,     \* the LookupTable objects that breakpoints() refers to
  th,        \* each thread's position and locals
  ops,       \* calls that may still be made
  returned,  \* history: what internalize has returned, per code object
  nverify,   \* history: verifier invocations, per code object
  everReg,   \* history: the registrations add_specialized was called with
  last,      \* history: the last operation that returned, and its result
  values_,   \* MethodTable: the bins, each the head of a bucket chain
  bins_,     \* MethodTable: the number of bins
  entries_,  \* MethodTable: the number of buckets
  buckets,   \* the MethodTableBucket objects, in order of allocation
  interned,  \* the names handed out so far
  extra,     \* repeated stores, aliases and removes that may still be made
  live,      \* history: the names stored or aliased and not removed since
  wr,        \* the thread that holds the table's lock: its position in store
  rd,        \* the threads inside lookup: their position in the chain
  stored,    \* history: the bindings store has been called with
  rlast,     \* history: the last lookup that returned, and its result
  lines,     \* CompiledCode::lines: nil, or the tuple [ip0, line0, ip1, line1, ...]
  lquery     \* history: the last call of line(ip), and its result

codeVars == <<threads, code, mcode, bptab, th, ops, returned, nverify, everReg, last>>
tableVars == <<values_, bins_, entries_, buckets, interned, extra, live>>
concVars == <<wr, rd, stored, rlast>>
lineVars == <<lines, lquery>>
vars == <<codeVars, tableVars, concVars, lineVars>>

\* ------------------------------------------------------------- values
Absent == 0
Free == 0
NilTable == 0

NoArgs == [class_id |-> 0, serial_id |-> 0, exec |-> "null", ip |-> 0]
IdleTh == [pc |-> "idle", top |-> "none", c |-> 0, m |-> 0, i |-> 0, a |-> NoArgs]
NoLast == [op |-> "none", c |-> 0, a |-> NoArgs, kind |-> "none", v |-> 0,
           x |-> "null", pre |-> 0]

EmptySlot == [class_id |-> 0, serial_id |-> 0, execute |-> "null"]

\* A code object that does not exist (yet).
NoCode == [alive |-> FALSE, machine_code |-> Absent, execute |-> "default_executor",
           primitive |-> FALSE, valid |-> TRUE, breakpoints |-> NilTable,
           lock |-> Free]

\* CompiledCode::create: executor = default_executor, nothing internalized.
NewCode(prim, ok) ==
  [alive |-> TRUE, machine_code |-> Absent, execute |-> "default_executor",
   primitive |-> prim, valid |-> ok, breakpoints |-> NilTable, lock |-> Free]

\* new MachineCode(state, self): the normal interpreter, no fallback yet,
\* an empty specialization cache.
NewMachineCode(c) ==
  [owner |-> c, fallback |-> "null", unspecialized |-> "null",
   specializations |-> [i \in Slots |-> EmptySlot],
   debugging |-> 0, run |-> "interpreter", execute_status |-> "eInterpret"]

\* ------------------------------------------------------------- helpers
Idle(t) == t \in threads /\ th[t].pc = "idle"

\* Thread t enters operation op on code object c at position p.
Start(t, op, c, args, p) ==
  /\ Idle(t)
  /\ code[c].alive
  /\ ops > 0
  /\ ops' = ops - 1
  /\ th' = [th EXCEPT ![t] = [pc |-> p, top |-> op, c |-> c, m |-> 0, i |-> 0,
                              a |-> args]]

Goto(t, p) == th' = [th EXCEPT ![t].pc = p]

\* Thread t returns from its operation.
Done(t, kind, v, x, pre) ==
  /\ th' = [th EXCEPT ![t] = IdleTh]
  /\ last' = [op |-> th[t].top, c |-> th[t].c, a |-> th[t].a, kind |-> kind,
              v |-> v, x |-> x, pre |-> pre]

\* ------------------------------------------------------------- internalize
\* The outcomes of bytecode_verifier.verify(state), ok or fail, which
\* internalize does not look at.
VerifyOutcomes(c) == IF code[c].valid THEN {"ok"} ELSE {"fail"}

\* hard_lock: the code object's own mutex.
CanLockFree(c) == TRUE
CanLock(c) == code[c].lock = Free

\* The re-check under the lock: mcode = self->machine_code(); if(!mcode)
NeedsBuildAlways(c) == TRUE
NeedsBuild(c) == code[c].machine_code = Absent

\* The order of internalize's statements once the MachineCode is built.
InternalizeNextPublishFirst(p) ==
  CASE p = "i_build" -> "i_publish"
    [] p = "i_publish" -> "i_init"
    [] p = "i_init" -> "i_setexec"
    [] OTHER -> "i_unlock"
InternalizeNext(p) ==
  CASE p = "i_build" -> "i_init"
    [] p = "i_init" -> "i_publish"
    [] p = "i_publish" -> "i_setexec"
    [] OTHER -> "i_unlock"

\* Where internalize's caller goes on once it has returned mcode m.
AfterInternalize(op) ==
  CASE op = "default_executor" -> "dd_call"
    [] op = "set_breakpoint" -> "sb_rest"
    [] op = "call_sites" -> "cs_rest"
    [] op = "constant_caches" -> "cs_rest"
    [] OTHER -> "idle"

\* internalize returns m to its caller.
InternalizeReturn(t, m) ==
  LET c == th[t].c IN
  /\ returned' = [returned EXCEPT ![c] = @ \cup {m}]
  /\ IF th[t].top = "internalize"
       THEN Done(t, "mcode", m, "null", 0)
       ELSE /\ th' = [th EXCEPT ![t].pc = AfterInternalize(th[t].top), ![t].m = m]
            /\ UNCHANGED last

\* MachineCode* mcode = machine_code(); memory_barrier; if(mcode) return mcode;
InternalizeRead(t) ==
  /\ t \in threads /\ th[t].pc = "i_read"
  /\ LET c == th[t].c IN
     IF code[c].machine_code # Absent
       THEN /\ InternalizeReturn(t, code[c].machine_code)
            /\ UNCHANGED <<threads, code, mcode, bptab, ops, nverify, everReg>>
       ELSE /\ Goto(t, "i_lock")
            /\ UNCHANGED <<threads, code, mcode, bptab, ops, returned, nverify,
                           everReg, last>>

\* self->hard_lock(state);
InternalizeLock(t) ==
  /\ t \in threads /\ th[t].pc = "i_lock"
  /\ CanLock(th[t].c)
  /\ code' = [code EXCEPT ![th[t].c].lock = t]
  /\ Goto(t, "i_check")
  /\ UNCHANGED <<threads, mcode, bptab, ops, returned, nverify, everReg, last>>

\* mcode = self->machine_code(); if(!mcode) { verify; new MachineCode
InternalizeCheck(t) ==
  /\ t \in threads /\ th[t].pc = "i_check"
  /\ LET c == th[t].c IN
     IF NeedsBuild(c)
       THEN \E o \in VerifyOutcomes(c) :
              /\ nverify' = [nverify EXCEPT ![c] = @ + 1]
              /\ mcode' = Append(mcode, NewMachineCode(c))
              /\ th' = [th EXCEPT ![t].pc = InternalizeNext("i_build"),
                                  ![t].m = Len(mcode) + 1]
              /\ UNCHANGED <<threads, code, bptab, ops, returned, everReg, last>>
       ELSE /\ th' = [th EXCEPT ![t].pc = "i_unlock", ![t].m = code[c].machine_code]
            /\ UNCHANGED <<threads, code, mcode, bptab, ops, returned, nverify,
                           everReg, last>>

\* Executable::resolve_primitive: binds the code's primitive, if it has one,
\* as the code's executor.
ResolvePrimitive(c) == code[c].primitive

\* if(self->resolve_primitive(state)) mcode->fallback = execute;
\* else mcode->setup_argument_handler();
InternalizeInit(t) ==
  /\ t \in threads /\ th[t].pc = "i_init"
  /\ LET c == th[t].c
         m == th[t].m
     IN IF ResolvePrimitive(c)
          THEN /\ code' = [code EXCEPT ![c].execute = "primitive"]
               /\ mcode' = [mcode EXCEPT ![m].fallback = "primitive"]
          ELSE /\ mcode' = [mcode EXCEPT ![m].fallback = "interpreter"]
               /\ UNCHANGED code
  /\ Goto(t, InternalizeNext("i_init"))
  /\ UNCHANGED <<threads, bptab, ops, returned, nverify, everReg, last>>

\* atomic::write(&self->_machine_code_, mcode);
InternalizePublish(t) ==
  /\ t \in threads /\ th[t].pc = "i_publish"
  /\ code' = [code EXCEPT ![th[t].c].machine_code = th[t].m]
  /\ Goto(t, InternalizeNext("i_publish"))
  /\ UNCHANGED <<threads, mcode, bptab, ops, returned, nverify, everReg, last>>

\* set_executor(mcode->fallback);
InternalizeSetExecutor(t) ==
  /\ t \in threads /\ th[t].pc = "i_setexec"
  /\ code' = [code EXCEPT ![th[t].c].execute = mcode[th[t].m].fallback]
  /\ Goto(t, InternalizeNext("i_setexec"))
  /\ UNCHANGED <<threads, mcode, bptab, ops, returned, nverify, everReg, last>>

\* What hard_unlock leaves in the lock.
HardUnlockForgotten(c) == code[c].lock
HardUnlock(c) == Free

\* self->hard_unlock(state); return mcode;
InternalizeUnlock(t) ==
  /\ t \in threads /\ th[t].pc = "i_unlock"
  /\ code' = [code EXCEPT ![th[t].c].lock = HardUnlock(th[t].c)]
  /\ InternalizeReturn(t, th[t].m)
  /\ UNCHANGED <<threads, mcode, bptab, ops, nverify, everReg>>

\* A call of CompiledCode::internalize.
Internalize(t, c) ==
  /\ Start(t, "internalize", c, NoArgs, "i_read")
  /\ UNCHANGED <<threads, code, mcode, bptab, returned, nverify, everReg, last>>

\* ------------------------------------------------------------- dup
\* What dup stores in the copy's machine_code slot: code->machine_code(NULL);
DupMachineCodeKept(c) == code[c].machine_code
DupMachineCode(c) == Absent

\* CompiledCode::dup: a new object, copy_object (every slot, the breakpoints
\* reference included), then the executor and machine_code are reset.
Dup(t, c) ==
  /\ Idle(t) /\ code[c].alive
  /\ ops > 0
  /\ \E d \in Codes :
       /\ ~code[d].alive
       /\ \A e \in Codes : e < d => code[e].alive
       /\ code' = [code EXCEPT ![d] = [code[c] EXCEPT
                                         !.execute = "default_executor",
                                         !.machine_code = DupMachineCode(c),
                                         !.lock = Free]]
       /\ last' = [NoLast EXCEPT !.op = "dup", !.c = c, !.kind = "code", !.v = d]
  /\ ops' = ops - 1
  /\ UNCHANGED <<threads, mcode, bptab, th, returned, nverify, everReg>>

\* ------------------------------------------------------------- default_executor
\* if(code->execute == default_executor) { if(!code->internalize(state)) return 0; }
DefaultExecutor(t, c) ==
  /\ Start(t, "default_executor", c, NoArgs,
           IF code[c].execute = "default_executor" THEN "i_read" ELSE "dd_call")
  /\ UNCHANGED <<threads, code, mcode, bptab, returned, nverify, everReg, last>>

\* return code->execute(state, exec, mod, args);
DefaultExecutorCall(t) ==
  /\ t \in threads /\ th[t].pc = "dd_call"
  /\ Done(t, "invoked", 0, code[th[t].c].execute, 0)
  /\ UNCHANGED <<threads, code, mcode, bptab, ops, returned, nverify, everReg>>

\* ------------------------------------------------------------- specializations
\* class_data.raw of a slot, the 64 bits that hold class_id and serial_id.
Raw(slot) == <<slot.class_id, slot.serial_id>>
RawZero == <<0, 0>>

\* for(i = 0; i < cMaxSpecializations; i++) { if(id == 0 || id == class_id) break; }
ScanAppendOnly(v, class_id) ==
  LET hit == {i \in Slots : mcode[v].specializations[i].class_id = 0}
  IN IF hit = {} THEN cMaxSpecializations
     ELSE CHOOSE i \in hit : \A j \in hit : i <= j
Scan(v, class_id) ==
  LET hit == {i \in Slots : \/ mcode[v].specializations[i].class_id = 0
                            \/ mcode[v].specializations[i].class_id = class_id}
  IN IF hit = {} THEN cMaxSpecializations
     ELSE CHOOSE i \in hit : \A j \in hit : i <= j

\* if(i == cMaxSpecializations) { warn; i = 0; }
SlotToWriteLast(i) == IF i = cMaxSpecializations THEN cMaxSpecializations - 1 ELSE i
SlotToWrite(i) == IF i = cMaxSpecializations THEN 0 ELSE i

\* A call of add_specialized(class_id, serial_id, exec, rd).
AddSpecialized(t, c, class_id, serial_id, exec) ==
  /\ Start(t, "add_specialized", c,
           [NoArgs EXCEPT !.class_id = class_id, !.serial_id = serial_id,
                          !.exec = exec], "as_scan")
  /\ UNCHANGED <<threads, code, mcode, bptab, returned, nverify, everReg, last>>

\* if(!machine_code()) { error; return; }  v = machine_code();  the scan
AddSpecializedScan(t) ==
  /\ t \in threads /\ th[t].pc = "as_scan"
  /\ LET c == th[t].c
         v == code[c].machine_code
     IN IF v = Absent
          THEN /\ Done(t, "ignored", 0, "null", 0)
               /\ UNCHANGED everReg
          ELSE /\ th' = [th EXCEPT ![t].pc = "as_class_id", ![t].m = v,
                                   ![t].i = SlotToWrite(Scan(v, th[t].a.class_id))]
               /\ everReg' = [everReg EXCEPT ![c] = @ \cup
                     {<<th[t].a.class_id, th[t].a.serial_id, th[t].a.exec>>}]
               /\ UNCHANGED last
  /\ UNCHANGED <<threads, code, mcode, bptab, ops, returned, nverify>>

\* v->specializations[i].class_data.f.class_id = class_id;
AddSpecializedClassId(t) ==
  /\ t \in threads /\ th[t].pc = "as_class_id"
  /\ mcode' = [mcode EXCEPT ![th[t].m].specializations[th[t].i].class_id =
                              th[t].a.class_id]
  /\ Goto(t, "as_serial_id")
  /\ UNCHANGED <<threads, code, bptab, ops, returned, nverify, everReg, last>>

\* v->specializations[i].class_data.f.serial_id = serial_id;
AddSpecializedSerialId(t) ==
  /\ t \in threads /\ th[t].pc = "as_serial_id"
  /\ mcode' = [mcode EXCEPT ![th[t].m].specializations[th[t].i].serial_id =
                              th[t].a.serial_id]
  /\ Goto(t, "as_execute")
  /\ UNCHANGED <<threads, code, bptab, ops, returned, nverify, everReg, last>>

\* v->specializations[i].execute = exec;  (and jit_data)
AddSpecializedExecute(t) ==
  /\ t \in threads /\ th[t].pc = "as_execute"
  /\ mcode' = [mcode EXCEPT ![th[t].m].specializations[th[t].i].execute =
                              th[t].a.exec]
  /\ Goto(t, "as_finish")
  /\ UNCHANGED <<threads, code, bptab, ops, returned, nverify, everReg, last>>

\* v->set_execute_status(eJIT); if(primitive()->nil_p()) execute = specialized_executor;
AddSpecializedFinish(t) ==
  /\ t \in threads /\ th[t].pc = "as_finish"
  /\ LET c == th[t].c IN
     /\ mcode' = [mcode EXCEPT ![th[t].m].execute_status = "eJIT"]
     /\ code' = IF code[c].primitive THEN code
                ELSE [code EXCEPT ![c].execute = "specialized_executor"]
  /\ Done(t, "void", th[t].i, "null", 0)
  /\ UNCHANGED <<threads, bptab, ops, returned, nverify, everReg>>

\* can_specialize_p: some slot has class_data.raw == 0
can_specialize_p(c) ==
  \E i \in Slots : Raw(mcode[code[c].machine_code].specializations[i]) = RawZero

\* A call of set_unspecialized(exec, rd); without a MachineCode it is
\* rubinius::bug, which ends the process.
SetUnspecialized(t, c, exec) ==
  /\ code[c].machine_code # Absent
  /\ Start(t, "set_unspecialized", c, [NoArgs EXCEPT !.exec = exec], "su_store")
  /\ UNCHANGED <<threads, code, mcode, bptab, returned, nverify, everReg, last>>

\* machine_code()->set_execute_status(eJIT); machine_code()->unspecialized = exec;
SetUnspecializedStore(t) ==
  /\ t \in threads /\ th[t].pc = "su_store"
  /\ LET v == code[th[t].c].machine_code IN
     mcode' = [mcode EXCEPT ![v].execute_status = "eJIT",
                            ![v].unspecialized = th[t].a.exec]
  /\ Goto(t, "su_scan")
  /\ UNCHANGED <<threads, code, bptab, ops, returned, nverify, everReg, last>>

\* for(...) { if(specializations[i].class_data.raw > 0) return; }
\* if(primitive()->nil_p()) execute = exec;
SetUnspecializedScan(t) ==
  /\ t \in threads /\ th[t].pc = "su_scan"
  /\ LET c == th[t].c
         v == code[c].machine_code
     IN code' = IF \/ \E i \in Slots : Raw(mcode[v].specializations[i]) # RawZero
                   \/ code[c].primitive
                  THEN code
                  ELSE [code EXCEPT ![c].execute = th[t].a.exec]
  /\ Done(t, "void", 0, "null", 0)
  /\ UNCHANGED <<threads, mcode, bptab, ops, returned, nverify, everReg>>

\* The cache scan of specialized_executor and primitive_failed:
\* if(c_id == class_data && x != 0) { target = x; break; }
CacheHits(v, class_id, serial_id) ==
  {i \in Slots : /\ Raw(mcode[v].specializations[i]) = <<class_id, serial_id>>
                 /\ mcode[v].specializations[i].execute # "null"}

FirstOf(hits) == CHOOSE i \in hits : \A j \in hits : i <= j

\* specialized_executor: target = v->unspecialized; the scan;
\* if(!target) target = v->fallback;
SpecializedTarget(v, class_id, serial_id) ==
  LET hits == CacheHits(v, class_id, serial_id) IN
  IF hits # {} THEN mcode[v].specializations[FirstOf(hits)].execute
  ELSE IF mcode[v].unspecialized # "null" THEN mcode[v].unspecialized
  ELSE mcode[v].fallback

\* primitive_failed: the same scan; if(target) target(...) else MachineCode::execute
PrimitiveFailedTargetFallback(v, class_id, serial_id) ==
  SpecializedTarget(v, class_id, serial_id)
PrimitiveFailedTarget(v, class_id, serial_id) ==
  LET hits == CacheHits(v, class_id, serial_id) IN
  IF hits # {} THEN mcode[v].specializations[FirstOf(hits)].execute
  ELSE IF mcode[v].unspecialized # "null" THEN mcode[v].unspecialized
  ELSE "MachineCode::execute"

\* find_specialized: if(!v) return 0; the first slot whose class_data.raw is
\* the class's; its execute, whatever it is.
FindSpecializedResult(c, class_id, serial_id) ==
  LET v == code[c].machine_code IN
  IF v = Absent THEN "null"
  ELSE LET hits == {i \in Slots :
                      Raw(mcode[v].specializations[i]) = <<class_id, serial_id>>}
       IN IF hits = {} THEN "null"
          ELSE mcode[v].specializations[FirstOf(hits)].execute

Hit(v, class_id, serial_id) ==
  IF CacheHits(v, class_id, serial_id) # {} THEN 1 ELSE 0

\* specialized_executor runs when it is the code's executor.
SpecializedExecutor(t, c, class_id, serial_id) ==
  /\ Idle(t) /\ code[c].alive
  /\ code[c].execute = "specialized_executor"
  /\ code[c].machine_code # Absent
  /\ LET v == code[c].machine_code IN
     last' = [NoLast EXCEPT !.op = "specialized_executor", !.c = c,
                !.a = [NoArgs EXCEPT !.class_id = class_id, !.serial_id = serial_id],
                !.kind = "invoked", !.v = Hit(v, class_id, serial_id),
                !.x = SpecializedTarget(v, class_id, serial_id)]
  /\ UNCHANGED <<threads, code, mcode, bptab, th, ops, returned, nverify, everReg>>

\* primitive_failed, which a primitive calls when it fails: a single call
\* that reads the cache of the code's MachineCode.
PrimitiveFailed(t, c, class_id, serial_id) ==
  /\ Idle(t) /\ code[c].alive
  /\ code[c].primitive
  /\ code[c].machine_code # Absent
  /\ ops > 0
  /\ ops' = ops - 1
  /\ LET v == code[c].machine_code IN
     last' = [NoLast EXCEPT !.op = "primitive_failed", !.c = c,
                !.a = [NoArgs EXCEPT !.class_id = class_id, !.serial_id = serial_id],
                !.kind = "invoked", !.v = Hit(v, class_id, serial_id),
                !.x = PrimitiveFailedTarget(v, class_id, serial_id)]
  /\ UNCHANGED <<threads, code, mcode, bptab, th, returned, nverify, everReg>>

\* ------------------------------------------------------------- breakpoints
\* MachineCode::validate_ip: ip is the start of an instruction. The bytecode
\* of the model has an instruction at every even ip.
ValidateIp(ip) == ip % 2 = 0

Table(c) == IF code[c].breakpoints = NilTable THEN {} ELSE bptab[code[c].breakpoints]

\* A call of set_breakpoint(ip, bp):
\* if(self->machine_code() == NULL) { if(!self->internalize(state)) return failure; }
SetBreakpoint(t, c, ip) ==
  /\ Start(t, "set_breakpoint", c, [NoArgs EXCEPT !.ip = ip],
           IF code[c].machine_code = Absent THEN "i_read" ELSE "sb_rest")
  /\ UNCHANGED <<threads, code, mcode, bptab, returned, nverify, everReg, last>>

\* What set_breakpoint leaves in the table.
StoredKeepsTable(tab, ip) == tab
Stored(tab, ip) == tab \cup {ip}

\* validate_ip; create the table if nil; store; debugging = 1; run = debugger
SetBreakpointRest(t) ==
  /\ t \in threads /\ th[t].pc = "sb_rest"
  /\ LET c == th[t].c
         ip == th[t].a.ip
         v == code[c].machine_code
     IN IF ~ValidateIp(ip)
          THEN /\ Done(t, "failure", 0, "null", 0)
               /\ UNCHANGED <<code, mcode, bptab>>
          ELSE /\ IF code[c].breakpoints = NilTable
                    THEN /\ bptab' = Append(bptab, Stored({}, ip))
                         /\ code' = [code EXCEPT ![c].breakpoints = Len(bptab) + 1]
                    ELSE /\ bptab' = [bptab EXCEPT ![code[c].breakpoints] =
                                                     Stored(@, ip)]
                         /\ UNCHANGED code
               /\ mcode' = [mcode EXCEPT ![v].debugging = 1,
                                         ![v].run = "debugger_interpreter"]
               /\ Done(t, "ip", ip, "null", 0)
  /\ UNCHANGED <<threads, ops, returned, nverify, everReg>>

\* What clear_breakpoint leaves in the table.
RemovedKeepsTable(tab, ip) == tab
Removed(tab, ip) == tab \ {ip}

\* if(breakpoints()->entries() == 0): no more breakpoints
NoMoreNever(tab) == FALSE
NoMore(tab) == tab = {}

\* clear_breakpoint(ip), a single call with no call inside.
ClearBreakpoint(t, c, ip) ==
  /\ Idle(t) /\ code[c].alive
  /\ ops > 0
  /\ ops' = ops - 1
  /\ LET v == code[c].machine_code
         b == code[c].breakpoints
         res(kind, val, pre) ==
           [NoLast EXCEPT !.op = "clear_breakpoint", !.c = c,
                          !.a = [NoArgs EXCEPT !.ip = ip], !.kind = kind,
                          !.v = val, !.pre = pre]
     IN IF v = Absent
          THEN /\ last' = res("ip", ip, 0)
               /\ UNCHANGED <<mcode, bptab>>
          ELSE IF ~ValidateIp(ip)
          THEN /\ last' = res("failure", 0, 0)
               /\ UNCHANGED <<mcode, bptab>>
          ELSE IF b = NilTable
          THEN /\ last' = res("bool", 0, mcode[v].debugging)
               /\ UNCHANGED <<mcode, bptab>>
          ELSE /\ bptab' = [bptab EXCEPT ![b] = Removed(@, ip)]
               /\ mcode' = IF NoMore(bptab'[b])
                             THEN [mcode EXCEPT ![v].debugging = 0,
                                                ![v].run = "interpreter"]
                             ELSE mcode
               /\ last' = res("bool", IF ip \in bptab[b] THEN 1 ELSE 0,
                              mcode[v].debugging)
  /\ UNCHANGED <<threads, code, th, returned, nverify, everReg>>

\* is_breakpoint(ip): "false", "true" or "failure"
IsBreakpoint(c, ip) ==
  IF code[c].machine_code = Absent THEN "false"
  ELSE IF ~ValidateIp(ip) THEN "failure"
  ELSE IF code[c].breakpoints = NilTable THEN "false"
  ELSE IF ip \in bptab[code[c].breakpoints] THEN "true" ELSE "false"

\* ------------------------------------------------------------- call_sites
\* call_sites and constant_caches:
\* if(self->machine_code() == NULL) { if(!self->internalize(state)) return failure; }
CallSites(t, c) ==
  /\ Start(t, "call_sites", c, NoArgs,
           IF code[c].machine_code = Absent THEN "i_read" ELSE "cs_rest")
  /\ UNCHANGED <<threads, code, mcode, bptab, returned, nverify, everReg, last>>

ConstantCaches(t, c) ==
  /\ Start(t, "constant_caches", c, NoArgs,
           IF code[c].machine_code = Absent THEN "i_read" ELSE "cs_rest")
  /\ UNCHANGED <<threads, code, mcode, bptab, returned, nverify, everReg, last>>

\* MachineCode* mcode = self->machine_code(); return mcode->call_sites(state);
CallSitesRest(t) ==
  /\ t \in threads /\ th[t].pc = "cs_rest"
  /\ Done(t, "tuple", code[th[t].c].machine_code, "null", 0)
  /\ UNCHANGED <<threads, code, mcode, bptab, ops, returned, nverify, everReg>>

\* ------------------------------------------------------------- MethodTable
Names == 1..MaxNames
HotNames == 1..MaxHotName
Methods == 1..MaxMethods
Nil == 0

\* The hash a symbol supplies: spread over the bins, with collisions.
symbol_hash(name) == (name * name) % 64

\* a & b on naturals
RECURSIVE BitAnd(_, _)
BitAnd(a, b) ==
  IF a = 0 \/ b = 0 THEN 0
  ELSE 2 * BitAnd(a \div 2, b \div 2) + (IF a % 2 = 1 /\ b % 2 = 1 THEN 1 ELSE 0)

\* The bin index: symbol_hash(name) & (bins - 1), as an index of values_.
find_bin(name, bins) == BitAnd(symbol_hash(name), bins - 1) + 1

\* The buckets of a chain, from its head along next.
RECURSIVE Chain(_, _)
Chain(bs, head) == IF head = Nil THEN <<>> ELSE <<head>> \o Chain(bs, bs[head].next)

\* The bucket of a chain that carries the name: the first found wins.
RECURSIVE find_in(_, _, _)
find_in(bs, head, name) ==
  IF head = Nil THEN Nil
  ELSE IF bs[head].name = name THEN head
  ELSE find_in(bs, bs[head].next, name)

\* find_entry / lookup: the bucket of the name, or Nil.
find_entry(name) == find_in(buckets, values_[find_bin(name, bins_)], name)

\* lookup(name) on a table: what the caller reads off the bucket it is given,
\* or absent.
lookup(bs, vs, bins, name) ==
  LET b == find_in(bs, vs[find_bin(name, bins)], name)
  IN IF b = Nil THEN <<"absent">>
     ELSE <<bs[b].name, bs[b].method, bs[b].visibility>>

\* The reachable buckets, bin after bin.
RECURSIVE Reachable(_, _, _)
Reachable(bs, vs, i) ==
  IF i > Len(vs) THEN <<>> ELSE Chain(bs, vs[i]) \o Reachable(bs, vs, i + 1)

\* MethodTableBucket::append: nxt goes to the end of the chain.
RECURSIVE append(_, _, _)
append(bs, b, nxt) ==
  IF bs[b].next = Nil THEN [bs EXCEPT ![b].next = nxt]
  ELSE append(bs, bs[b].next, nxt)

\* redistribute: every bucket is rehashed into a new array of size bins; the
\* buckets are reused and only their next links are rewritten.
RECURSIVE Rehash(_, _, _)
Rehash(todo, bs, vs) ==
  IF todo = <<>> THEN [buckets |-> bs, values |-> vs]
  ELSE LET e == Head(todo)
           bin == find_bin(bs[e].name, Len(vs))
           cut == [bs EXCEPT ![e].next = Nil]
       IN IF vs[bin] = Nil
            THEN Rehash(Tail(todo), cut, [vs EXCEPT ![bin] = e])
            ELSE Rehash(Tail(todo), append(cut, vs[bin], e), vs)

redistributeSkipsBin(bs, vs, size) ==
  Rehash(Reachable(bs, vs, 2), bs, [i \in 1..size |-> Nil])
redistribute(bs, vs, size) ==
  Rehash(Reachable(bs, vs, 1), bs, [i \in 1..size |-> Nil])

\* store and alias count a bucket they allocate, not one they overwrite.
CountsAlways(found) == TRUE
Counts(found) == found = Nil

\* if(entries == bins) resize to 2 * bins
NeedsResizeNever(entries, bins) == FALSE
NeedsResize(entries, bins) == entries = bins

\* The body of store, under the lock: overwrite the bucket of the name in
\* place, or allocate one and prepend it to the chain of its bin; count it;
\* resize when entries has reached bins.
Install(name, method_id, method, vis) ==
  LET found == find_entry(name)
      bin == find_bin(name, bins_)
      fresh == Len(buckets) + 1
      bs == IF found # Nil
              THEN [buckets EXCEPT ![found].method_id = method_id,
                                   ![found].method = method,
                                   ![found].visibility = vis]
              ELSE Append(buckets, [name |-> name, visibility |-> vis,
                                    method_id |-> method_id, method |-> method,
                                    next |-> values_[bin]])
      vs == IF found # Nil THEN values_ ELSE [values_ EXCEPT ![bin] = fresh]
      n == IF Counts(found) THEN entries_ + 1 ELSE entries_
  IN /\ entries_' = n
     /\ IF NeedsResize(n, bins_)
          THEN LET r == redistribute(bs, vs, 2 * bins_)
               IN /\ buckets' = r.buckets
                  /\ values_' = r.values
                  /\ bins_' = 2 * bins_
          ELSE /\ buckets' = bs
               /\ values_' = vs
               /\ bins_' = bins_
     /\ live' = live \cup {name}

\* The names a call may be made with: the next name of the interner, stored
\* for the first time, or one of the names that are stored again.
FirstUse(name) == name = interned + 1 /\ name <= MaxNames
Again(name) == name \in HotNames /\ name <= interned /\ extra > 0

\* store(name, method_id, method, scope, serial, visibility)
Store(name, method, vis) ==
  /\ \/ FirstUse(name) /\ method = 1 /\ vis = "public"
        /\ interned' = name /\ UNCHANGED extra
     \/ Again(name) /\ extra' = extra - 1 /\ UNCHANGED interned
  /\ Install(name, method, method, vis)
  /\ UNCHANGED codeVars

\* alias(new_name, vis, orig_name, orig_method, orig_mod): the resolver finds
\* the method the original name is bound to, or none, and alias fails.
Alias(name, vis, resolved) ==
  /\ Again(name) /\ extra' = extra - 1
  /\ IF resolved = Nil
       THEN UNCHANGED <<values_, bins_, entries_, buckets, live>>
       ELSE Install(name, resolved, resolved, vis)
  /\ UNCHANGED <<codeVars, interned>>

\* What remove leaves of the chain: the bucket is unlinked.
UnlinkNothing(bs, head, b) == bs
RECURSIVE Unlink(_, _, _)
Unlink(bs, head, b) ==
  IF bs[head].next = b THEN [bs EXCEPT ![head].next = bs[b].next]
  ELSE Unlink(bs, bs[head].next, b)

\* remove(name): unlink the bucket of the name and count it out.
Remove(name) ==
  /\ Again(name) /\ extra' = extra - 1
  /\ LET found == find_entry(name)
         bin == find_bin(name, bins_)
     IN IF found = Nil
          THEN UNCHANGED <<values_, bins_, entries_, buckets, live>>
          ELSE /\ IF values_[bin] = found
                    THEN /\ values_' = [values_ EXCEPT ![bin] = buckets[found].next]
                         /\ UNCHANGED buckets
                    ELSE /\ buckets' = Unlink(buckets, values_[bin], found)
                         /\ UNCHANGED values_
               /\ entries_' = entries_ - 1
               /\ live' = live \ {name}
               /\ UNCHANGED bins_
  /\ UNCHANGED <<codeVars, interned>>

Readers == 1..MaxReaders
IdleWriter == [pc |-> "idle", name |-> 0, method |-> 0, vis |-> "none", found |-> 0,
               todo |-> <<>>, new |-> <<>>]
IdleReader == [pc |-> "idle", name |-> 0, cur |-> 0, known |-> FALSE]
NoLookup == [name |-> 0, res |-> <<"none">>, known |-> FALSE]

\* MethodTable::create(size): max(size, 16) bins, a power of two, no buckets.
InitTable ==
  /\ wr = IdleWriter
  /\ rd = [r \in Readers |-> IdleReader]
  /\ stored = {}
  /\ rlast = NoLookup
  /\ values_ = [i \in 1..METHODTABLE_MIN_SIZE |-> Nil]
  /\ bins_ = METHODTABLE_MIN_SIZE
  /\ entries_ = 0
  /\ buckets = <<>>
  /\ interned = 0
  /\ extra = MaxExtra
  /\ live = {}

\* ------------------------------------------------------------- MethodTable, step by step
\* store as the steps of the one thread that holds the lock, each a write
\* that a lock-free lookup can see, and lookup as the steps of a reader.

\* store(name, ...) takes the lock and locates the bucket of the name.
StoreBegin(name, method, vis) ==
  /\ wr.pc = "idle"
  /\ \/ FirstUse(name) /\ method = 1 /\ vis = "public"
        /\ interned' = name /\ UNCHANGED extra
     \/ Again(name) /\ extra' = extra - 1 /\ UNCHANGED interned
  /\ LET found == find_entry(name) IN
     wr' = [IdleWriter EXCEPT !.pc = IF found = Nil THEN "prepend" ELSE "method",
                              !.name = name, !.method = method, !.vis = vis,
                              !.found = found]
  /\ stored' = stored \cup {<<name, method, vis>>}
  /\ UNCHANGED <<codeVars, values_, bins_, entries_, buckets, live, rd, rlast>>

\* allocate a bucket and prepend it to the chain of its bin
StorePrepend ==
  /\ wr.pc = "prepend"
  /\ LET bin == find_bin(wr.name, bins_) IN
     /\ buckets' = Append(buckets, [name |-> wr.name, visibility |-> wr.vis,
                                    method_id |-> wr.method, method |-> wr.method,
                                    next |-> values_[bin]])
     /\ values_' = [values_ EXCEPT ![bin] = Len(buckets) + 1]
  /\ wr' = [wr EXCEPT !.pc = "count"]
  /\ UNCHANGED <<codeVars, bins_, entries_, interned, extra, live, rd, stored, rlast>>

\* overwrite in place, a field at a time: method_id and method
StoreOverwriteMethod ==
  /\ wr.pc = "method"
  /\ buckets' = [buckets EXCEPT ![wr.found].method_id = wr.method,
                                ![wr.found].method = wr.method]
  /\ wr' = [wr EXCEPT !.pc = "visibility"]
  /\ UNCHANGED <<codeVars, values_, bins_, entries_, interned, extra, live, rd,
                 stored, rlast>>

\* overwrite in place, a field at a time: visibility
StoreOverwriteVisibility ==
  /\ wr.pc = "visibility"
  /\ buckets' = [buckets EXCEPT ![wr.found].visibility = wr.vis]
  /\ wr' = [wr EXCEPT !.pc = "count"]
  /\ UNCHANGED <<codeVars, values_, bins_, entries_, interned, extra, live, rd,
                 stored, rlast>>

\* increment entries; if entries == bins, resize
StoreCount ==
  /\ wr.pc = "count"
  /\ LET n == IF Counts(wr.found) THEN entries_ + 1 ELSE entries_ IN
     /\ entries_' = n
     /\ wr' = [wr EXCEPT !.pc = IF NeedsResize(n, bins_) THEN "redistribute"
                                ELSE "return"]
  /\ UNCHANGED <<codeVars, values_, bins_, buckets, interned, extra, live, rd,
                 stored, rlast>>

\* redistribute: a new values array of 2 * bins; the buckets to rehash
RedistributeBegin ==
  /\ wr.pc = "redistribute"
  /\ wr' = [wr EXCEPT !.pc = "cut", !.todo = Reachable(buckets, values_, 1),
                      !.new = [i \in 1..(2 * bins_) |-> Nil]]
  /\ UNCHANGED <<codeVars, tableVars, rd, stored, rlast>>

\* the bucket's next link is cleared
RedistributeCut ==
  /\ wr.pc = "cut"
  /\ buckets' = [buckets EXCEPT ![Head(wr.todo)].next = Nil]
  /\ wr' = [wr EXCEPT !.pc = "place"]
  /\ UNCHANGED <<codeVars, values_, bins_, entries_, interned, extra, live, rd,
                 stored, rlast>>

\* the bucket goes to its bin of the new array, or to the end of the chain
\* that is there
RedistributePlace ==
  /\ wr.pc = "place"
  /\ LET e == Head(wr.todo)
         bin == find_bin(buckets[e].name, Len(wr.new))
         more == IF Tail(wr.todo) = <<>> THEN "publish" ELSE "cut"
     IN IF wr.new[bin] = Nil
          THEN /\ wr' = [wr EXCEPT !.pc = more, !.todo = Tail(wr.todo),
                                   !.new = [wr.new EXCEPT ![bin] = e]]
               /\ UNCHANGED buckets
          ELSE /\ wr' = [wr EXCEPT !.pc = more, !.todo = Tail(wr.todo)]
               /\ buckets' = append(buckets, wr.new[bin], e)
  /\ UNCHANGED <<codeVars, values_, bins_, entries_, interned, extra, live, rd,
                 stored, rlast>>

\* the new array and the new bins are published together
RedistributePublish ==
  /\ wr.pc = "publish"
  /\ values_' = wr.new
  /\ bins_' = 2 * bins_
  /\ wr' = [wr EXCEPT !.pc = "return", !.new = <<>>]
  /\ UNCHANGED <<codeVars, entries_, buckets, interned, extra, live, rd, stored, rlast>>

\* store releases the lock and returns: the binding is committed
StoreReturn ==
  /\ wr.pc = "return"
  /\ live' = live \cup {wr.name}
  /\ wr' = IdleWriter
  /\ UNCHANGED <<codeVars, values_, bins_, entries_, buckets, interned, extra, rd,
                 stored, rlast>>

\* lookup(name), without the lock: read values and bins, hash, take the head
\* of the chain
LookupBegin(r, name) ==
  /\ rd[r].pc = "idle"
  /\ rd' = [rd EXCEPT ![r] = [pc |-> "walk", name |-> name,
                              cur |-> values_[find_bin(name, bins_)],
                              known |-> name \in live]]
  /\ UNCHANGED <<codeVars, tableVars, wr, stored, rlast>>

\* walk the chain comparing names; return the bucket, read as the binding it
\* holds at that moment, or absent at the end of the chain
LookupWalk(r) ==
  /\ rd[r].pc = "walk"
  /\ LET cur == rd[r].cur
         res(v) == [name |-> rd[r].name, res |-> v, known |-> rd[r].known]
     IN IF cur = Nil
          THEN /\ rlast' = res(<<"absent">>)
               /\ rd' = [rd EXCEPT ![r] = IdleReader]
          ELSE IF buckets[cur].name = rd[r].name
          THEN /\ rlast' = res(<<buckets[cur].name, buckets[cur].method,
                                 buckets[cur].visibility>>)
               /\ rd' = [rd EXCEPT ![r] = IdleReader]
          ELSE /\ rd' = [rd EXCEPT ![r].cur = buckets[cur].next]
               /\ UNCHANGED rlast
  /\ UNCHANGED <<codeVars, tableVars, wr, stored>>

\* ------------------------------------------------------------- line
NilLines == [nil_p |-> TRUE, fields |-> <<>>]
NoQuery == [asked |-> FALSE, ip |-> 0, line |-> 0]

\* start_ip->to_native() <= ip && end_ip->to_native() > ip
LineMatchesInclusive(start_ip, end_ip, ip) == start_ip <= ip /\ end_ip >= ip
LineMatches(start_ip, end_ip, ip) == start_ip <= ip /\ end_ip > ip

\* for(i = 0; i < fin; i += 2) { ... return lines()->at(i+1) }
\* return lines()->at(fin+1);     (at(k) is fields[k + 1])
RECURSIVE line_scanReturnsFirst(_, _, _, _)
line_scanReturnsFirst(fields, i, fin, ip) ==
  IF i >= fin THEN fields[2]
  ELSE IF LineMatches(fields[i + 1], fields[i + 3], ip) THEN fields[i + 2]
  ELSE line_scanReturnsFirst(fields, i + 2, fin, ip)
RECURSIVE line_scan(_, _, _, _)
line_scan(fields, i, fin, ip) ==
  IF i >= fin THEN fields[fin + 2]
  ELSE IF LineMatches(fields[i + 1], fields[i + 3], ip) THEN fields[i + 2]
  ELSE line_scan(fields, i + 2, fin, ip)

\* CompiledCode::line(ip)
line(ls, ip) ==
  IF ls.nil_p THEN -3 ELSE line_scan(ls.fields, 0, Len(ls.fields) - 2, ip)

\* CompiledCode::start_line()
start_line(ls) ==
  IF ls.nil_p THEN -1
  ELSE IF Len(ls.fields) < 2 THEN -1
  ELSE ls.fields[2]

\* A call of line(ip).
Line(ip) ==
  /\ lquery' = [asked |-> TRUE, ip |-> ip, line |-> line(lines, ip)]
  /\ UNCHANGED <<codeVars, tableVars, concVars, lines>>

NoLines == lines = NilLines /\ lquery = NoQuery

\* ------------------------------------------------------------- the system
InitCode(n) ==
  /\ NoLines
  /\ \E prim \in BOOLEAN, ok \in BOOLEAN :
       code = [c \in Codes |-> IF c = 1 THEN NewCode(prim, ok) ELSE NoCode]
  /\ mcode = <<>>
  /\ bptab = <<>>
  /\ th = [t \in AllThreads |-> IdleTh]
  /\ ops = n
  /\ returned = [c \in Codes |-> {}]
  /\ nverify = [c \in Codes |-> 0]
  /\ everReg = [c \in Codes |-> {}]
  /\ last = NoLast

StepInternalize(t) ==
  \/ InternalizeRead(t)
  \/ InternalizeLock(t)
  \/ InternalizeCheck(t)
  \/ InternalizeInit(t)
  \/ InternalizePublish(t)
  \/ InternalizeSetExecutor(t)
  \/ InternalizeUnlock(t)

StepSpecialize(t) ==
  \/ AddSpecializedScan(t)
  \/ AddSpecializedClassId(t)
  \/ AddSpecializedSerialId(t)
  \/ AddSpecializedExecute(t)
  \/ AddSpecializedFinish(t)
  \/ SetUnspecializedStore(t)
  \/ SetUnspecializedScan(t)

\* Any number of threads calling into one code object and its copies; the
\* JIT registers executors for one class, at two serials.
Init == threads = AllThreads /\ InitCode(MaxOps) /\ InitTable

Call(t, c) ==
  \/ Internalize(t, c)
  \/ Dup(t, c)
  \/ DefaultExecutor(t, c)
  \/ \E serial_id \in Serials :
       \/ AddSpecialized(t, c, 1, serial_id, IF serial_id = 1 THEN "E1" ELSE "E2")
       \/ SpecializedExecutor(t, c, 1, serial_id)
  \/ SetUnspecialized(t, c, "E1")
  \/ SetBreakpoint(t, c, 0)
  \/ ClearBreakpoint(t, c, 0)

Next ==
  /\ UNCHANGED <<tableVars, concVars, lineVars>>
  /\ \E t \in AllThreads :
    \/ StepInternalize(t)
    \/ StepSpecialize(t)
    \/ DefaultExecutorCall(t)
    \/ SetBreakpointRest(t)
    \/ \E c \in Codes : Call(t, c)

Spec == Init /\ [][Next]_vars

\* The same threads under a fair scheduler: a thread inside an operation
\* takes its next step whenever that step stays possible.
Running(t) ==
  \/ StepInternalize(t)
  \/ StepSpecialize(t)
  \/ DefaultExecutorCall(t)
  \/ SetBreakpointRest(t)

SpecFair == Spec /\ \A t \in AllThreads : WF_vars(Running(t) /\ UNCHANGED <<tableVars, concVars, lineVars>>)

\* One thread: completed calls one after another, on a code object and its
\* copies.
InitSeq == threads = {1} /\ InitCode(MaxOpsSeq) /\ InitTable

CallSeq(t, c) ==
  \/ Internalize(t, c)
  \/ Dup(t, c)
  \/ DefaultExecutor(t, c)
  \/ CallSites(t, c)
  \/ ConstantCaches(t, c)
  \/ \E ip \in Ips : SetBreakpoint(t, c, ip) \/ ClearBreakpoint(t, c, ip)

NextSeq ==
  /\ UNCHANGED <<tableVars, concVars, lineVars>>
  /\ \E t \in AllThreads :
    \/ StepInternalize(t)
    \/ DefaultExecutorCall(t)
    \/ SetBreakpointRest(t)
    \/ CallSitesRest(t)
    \/ \E c \in Codes : CallSeq(t, c)

SpecSeq == InitSeq /\ [][NextSeq]_vars

\* One thread registering executors on one code object.
InitCache == threads = {1} /\ InitCode(MaxOpsCache) /\ InitTable

CallCache(t, c) ==
  \/ Internalize(t, c)
  \/ \E class_id \in ClassIds, serial_id \in Serials, exec \in JitExecs :
       AddSpecialized(t, c, class_id, serial_id, exec)
  \/ \E exec \in JitExecs : SetUnspecialized(t, c, exec)
  \/ \E class_id \in ClassIds, serial_id \in Serials :
       PrimitiveFailed(t, c, class_id, serial_id)

NextCache ==
  /\ UNCHANGED <<tableVars, concVars, lineVars>>
  /\ \E t \in AllThreads :
    \/ StepInternalize(t)
    \/ StepSpecialize(t)
    \/ \E c \in Codes : CallCache(t, c)

SpecCache == InitCache /\ [][NextCache]_vars

\* One method table, mutated under its lock, one call after another.
InitMethodTable ==
  /\ threads = {1}
  /\ code = [c \in Codes |-> IF c = 1 THEN NewCode(FALSE, TRUE) ELSE NoCode]
  /\ mcode = <<>>
  /\ bptab = <<>>
  /\ th = [t \in AllThreads |-> IdleTh]
  /\ ops = 0
  /\ returned = [c \in Codes |-> {}]
  /\ nverify = [c \in Codes |-> 0]
  /\ everReg = [c \in Codes |-> {}]
  /\ last = NoLast
  /\ NoLines
  /\ InitTable

Visibilities == {"public", "private"}

NextMethodTable ==
  /\ UNCHANGED <<concVars, lineVars>>
  /\ \E name \in Names :
      \/ \E method \in Methods, vis \in Visibilities : Store(name, method, vis)
      \/ \E vis \in Visibilities, resolved \in Methods \cup {Nil} :
           Alias(name, vis, resolved)
      \/ Remove(name)

SpecMethodTable == InitMethodTable /\ [][NextMethodTable]_vars

\* One writer storing names, lock-free readers looking names up: every name
\* is stored as public method 1, and name 1 again as private method 2.
NextTable ==
  /\ UNCHANGED lineVars
  /\ \/ \E name \in Names : StoreBegin(name, 1, "public")
     \/ StoreBegin(1, MaxMethods, "private")
     \/ StorePrepend
     \/ StoreOverwriteMethod
     \/ StoreOverwriteVisibility
     \/ StoreCount
     \/ RedistributeBegin
     \/ RedistributeCut
     \/ RedistributePlace
     \/ RedistributePublish
     \/ StoreReturn
     \/ \E r \in Readers :
          \/ \E name \in HotNames : LookupBegin(r, name)
          \/ LookupWalk(r)

SpecTable == InitMethodTable /\ [][NextTable]_vars

\* A code object with any lines table, asked for the line of any ip.
LineIps == 0..MaxLineIp
LineNos == 1..MaxLineNo
Flat(ps) ==
  [i \in 1..(2 * Len(ps)) |->
     IF i % 2 = 1 THEN ps[(i + 1) \div 2][1] ELSE ps[i \div 2][2]]
LineTables ==
  UNION {{Flat(ps) : ps \in [1..n -> LineIps \X LineNos]} : n \in 1..MaxPairs}

InitLine ==
  /\ threads = {1}
  /\ code = [c \in Codes |-> IF c = 1 THEN NewCode(FALSE, TRUE) ELSE NoCode]
  /\ mcode = <<>>
  /\ bptab = <<>>
  /\ th = [t \in AllThreads |-> IdleTh]
  /\ ops = 0
  /\ returned = [c \in Codes |-> {}]
  /\ nverify = [c \in Codes |-> 0]
  /\ everReg = [c \in Codes |-> {}]
  /\ last = NoLast
  /\ InitTable
  /\ lines \in {NilLines} \cup {[nil_p |-> FALSE, fields |-> f] : f \in LineTables}
  /\ lquery = NoQuery

NextLine == \E ip \in 0..(MaxLineIp + 1) : Line(ip)

SpecLine == InitLine /\ [][NextLine]_vars

\* ------------------------------------------------------------- properties
AllIdle == \A t \in threads : th[t].pc = "idle"
MachineCodesOf(c) == {m \in 1..Len(mcode) : mcode[m].owner = c}

\* C1: however many threads call internalize on one code object, every call
\* returns the same MachineCode (the one the code object holds), at most one
\* MachineCode is ever constructed for it, and the verifier runs at most once.
C1_InternalizeOnce ==
  \A c \in Codes :
    /\ returned[c] \subseteq {code[c].machine_code}
    /\ Cardinality(returned[c]) <= 1
    /\ Cardinality(MachineCodesOf(c)) <= 1
    /\ returned[c] # {} => Cardinality(MachineCodesOf(c)) = 1
    /\ nverify[c] <= 1

\* A second caller holds the lock of a valid code object that the first caller
\* has internalized and returned from, and finds the MachineCode there.
C1_Witness ==
  \E t \in threads :
    /\ th[t].pc = "i_check"
    /\ code[th[t].c].valid
    /\ code[th[t].c].machine_code # Absent
    /\ returned[th[t].c] # {}

\* C2: in every step of every interleaving, a machine_code that is present
\* stays the same MachineCode, and a code object that dup creates starts with
\* machine_code absent.
C2_MachineCodeSetOnce ==
  [][\A c \in Codes :
       /\ code[c].machine_code # Absent =>
            code'[c].machine_code = code[c].machine_code
       /\ (~code[c].alive /\ code'[c].alive) =>
            code'[c].machine_code = Absent]_vars

\* An internalized code object and its copy, internalized again on its own.
C2_Witness ==
  /\ code[1].machine_code # Absent
  /\ code[2].alive
  /\ code[2].machine_code # Absent
  /\ code[2].machine_code # code[1].machine_code

\* C3: whenever machine_code can be read as present, that MachineCode is
\* initialised: primitive resolution has set its fallback or the argument
\* handler setup has run.
Initialised(m) == mcode[m].fallback \in {"primitive", "interpreter"}

C3_PublishedInitialised ==
  \A c \in Codes : code[c].machine_code # Absent => Initialised(code[c].machine_code)

\* A thread is about to read machine_code while the internalizing thread has
\* published it and is still inside internalize.
C3_Witness ==
  \E t \in threads, u \in threads :
    /\ t # u
    /\ th[t].pc = "i_setexec"
    /\ th[u].pc = "i_read"
    /\ th[u].c = th[t].c
    /\ code[th[t].c].machine_code = th[t].m

\* C4: the executor never goes backward: once it is not default_executor it
\* is never default_executor again, and once it is specialized_executor it
\* stays specialized_executor.
C4_ExecutorMonotone ==
  [][\A c \in Codes :
       /\ code[c].execute # "default_executor" =>
            code'[c].execute # "default_executor"
       /\ code[c].execute = "specialized_executor" =>
            code'[c].execute = "specialized_executor"]_vars

\* C5: a code object whose breakpoints table is not empty has a MachineCode
\* with debugging set and the debugging interpreter.
C5_BreakpointsImplyDebugging ==
  \A c \in Codes :
    (code[c].alive /\ Table(c) # {}) =>
      /\ code[c].machine_code # Absent
      /\ mcode[code[c].machine_code].debugging = 1
      /\ mcode[code[c].machine_code].run = "debugger_interpreter"

\* C6: after set_breakpoint(ip) has returned ip, is_breakpoint(ip) is true;
\* after clear_breakpoint(ip) with a valid ip, is_breakpoint(ip) is false;
\* a clear_breakpoint that leaves the table empty leaves debugging cleared
\* and the normal interpreter; one that leaves other breakpoints leaves
\* debugging and the interpreter variant as they were.
C6_BreakpointLifecycle ==
  LET c == last.c
      v == code[c].machine_code
  IN AllIdle =>
     /\ (last.op = "set_breakpoint" /\ last.kind = "ip") =>
          /\ ValidateIp(last.a.ip)
          /\ IsBreakpoint(c, last.a.ip) = "true"
     /\ (last.op = "set_breakpoint" /\ last.kind = "failure") =>
          ~ValidateIp(last.a.ip)
     /\ (last.op = "clear_breakpoint" /\ ValidateIp(last.a.ip)) =>
          IsBreakpoint(c, last.a.ip) = "false"
     /\ (last.op = "clear_breakpoint" /\ last.kind = "bool"
           /\ code[c].breakpoints # NilTable) =>
          IF Table(c) = {}
            THEN mcode[v].debugging = 0 /\ mcode[v].run = "interpreter"
            ELSE /\ mcode[v].debugging = last.pre
                 /\ mcode[v].run = IF last.pre = 1 THEN "debugger_interpreter"
                                   ELSE "interpreter"

\* clear_breakpoint has removed one of two breakpoints and the debugging
\* interpreter is still installed.
C6_Witness ==
  /\ AllIdle
  /\ last.op = "clear_breakpoint"
  /\ last.kind = "bool"
  /\ last.v = 1
  /\ Table(last.c) # {}
  /\ mcode[code[last.c].machine_code].debugging = 1
  /\ mcode[code[last.c].machine_code].run = "debugger_interpreter"

Receivers == ClassIds \X Serials

\* C7 as stated: every (cid, s) that has been registered with e dispatches
\* to e, and a receiver that matches no registration goes to the
\* unspecialized executor or, without one, to the fallback.
C7_EverRegisteredDispatch ==
  \A c \in Codes :
    (AllIdle /\ code[c].machine_code # Absent) =>
      LET v == code[c].machine_code IN
      /\ \A r \in everReg[c] : SpecializedTarget(v, r[1], r[2]) = r[3]
      /\ \A k \in Receivers :
           (\A r \in everReg[c] : <<r[1], r[2]>> # k) =>
             SpecializedTarget(v, k[1], k[2]) =
               IF mcode[v].unspecialized # "null" THEN mcode[v].unspecialized
               ELSE mcode[v].fallback

\* The registrations the cache holds now.
Current(v) ==
  {<<mcode[v].specializations[i].class_id, mcode[v].specializations[i].serial_id,
     mcode[v].specializations[i].execute>> :
     i \in {j \in Slots : mcode[v].specializations[j].class_id # 0}}

\* C7 amended: the registrations the cache holds are registrations that were
\* made, the latest add_specialized among them; a receiver whose class data
\* is one of them dispatches to its executor, and every other receiver goes
\* to the unspecialized executor or, without one, to the fallback.
C7_CurrentRegistrationDispatch ==
  \A c \in Codes :
    (AllIdle /\ code[c].machine_code # Absent) =>
      LET v == code[c].machine_code IN
      /\ Current(v) \subseteq everReg[c]
      /\ (last.op = "add_specialized" /\ last.c = c /\ last.kind = "void") =>
           <<last.a.class_id, last.a.serial_id, last.a.exec>> \in Current(v)
      /\ \A r \in Current(v) : SpecializedTarget(v, r[1], r[2]) = r[3]
      /\ \A k \in Receivers :
           (\A r \in Current(v) : <<r[1], r[2]>> # k) =>
             SpecializedTarget(v, k[1], k[2]) =
               IF mcode[v].unspecialized # "null" THEN mcode[v].unspecialized
               ELSE mcode[v].fallback

\* The cache is full and a registration of a further class has overwritten
\* slot 0, with an unspecialized executor installed.
C7_Witness ==
  /\ AllIdle
  /\ last.op = "add_specialized" /\ last.kind = "void" /\ last.v = 0
  /\ LET v == code[last.c].machine_code IN
     /\ Cardinality(Current(v)) = cMaxSpecializations
     /\ \E r \in everReg[last.c] : \A q \in Current(v) : q[1] # r[1]
     /\ mcode[v].unspecialized # "null"

\* C8: when the verifier has rejected the bytecode of a code object, its
\* machine_code stays absent, its executor stays default_executor, it has no
\* breakpoints, its lock is not held once the call is over, and the call
\* that needed internalization returned the failure sentinel.
C8_RejectedLeavesNoTrace ==
  \A c \in Codes :
    (code[c].alive /\ ~code[c].valid /\ nverify[c] > 0) =>
      /\ code[c].machine_code = Absent
      /\ code[c].execute = "default_executor"
      /\ code[c].breakpoints = NilTable
      /\ AllIdle => code[c].lock = Free
      /\ (AllIdle /\ last.c = c
            /\ last.op \in {"set_breakpoint", "call_sites", "constant_caches"}) =>
           last.kind = "failure"

\* C9: a specialized_executor that finds its receiver's class data in the
\* cache calls an executor that was registered with that class data.
C9_NoTornSlot ==
  (last.op = "specialized_executor" /\ last.v = 1) =>
    <<last.a.class_id, last.a.serial_id, last.x>> \in everReg[last.c]

ReachableBuckets == Reachable(buckets, values_, 1)
ReachableNames == {buckets[ReachableBuckets[i]].name : i \in 1..Len(ReachableBuckets)}

\* C10: after every method-table mutation no two reachable buckets carry the
\* same name, entries is the number of reachable buckets, and both are the
\* number of distinct names stored (or aliased) and not removed since.
C10_UniqueNamesCounted ==
  /\ \A i, j \in 1..Len(ReachableBuckets) :
       buckets[ReachableBuckets[i]].name = buckets[ReachableBuckets[j]].name => i = j
  /\ entries_ = Len(ReachableBuckets)
  /\ ReachableNames = live
  /\ entries_ = Cardinality(live)

\* A table that has been resized, with a name stored a second time and
\* another removed.
C10_Witness ==
  /\ bins_ = 2 * METHODTABLE_MIN_SIZE
  /\ extra = 0
  /\ entries_ = interned - 1
  /\ \E i \in 1..Len(ReachableBuckets) : buckets[ReachableBuckets[i]].method = 2

\* C11: a step that is store(n, m, vis) leaves lookup(n) with method m and
\* visibility vis, counts a name that was absent and does not count one that
\* was present; a step that is remove(n) leaves lookup(n) absent and entries
\* one less when n was present; both leave the lookup of every other name as
\* it was.
C11_StoreLookupRemove ==
  [][\A name \in Names :
       LET was == lookup(buckets, values_, bins_, name)
           others == \A o \in Names \ {name} :
                       lookup(buckets', values_', bins_', o) =
                         lookup(buckets, values_, bins_, o)
       IN /\ \A method \in Methods, vis \in Visibilities :
               Store(name, method, vis) =>
                 /\ lookup(buckets', values_', bins_', name) = <<name, method, vis>>
                 /\ entries_' = IF was = <<"absent">> THEN entries_ + 1 ELSE entries_
                 /\ others
          /\ Remove(name) =>
               /\ lookup(buckets', values_', bins_', name) = <<"absent">>
               /\ entries_' = IF was = <<"absent">> THEN entries_ ELSE entries_ - 1
               /\ others]_vars

\* Name 3 has been removed from behind name 5 in the chain they share, and
\* name 1 has been stored a second time, as private method 2.
C11_Witness ==
  /\ interned >= 5
  /\ lookup(buckets, values_, bins_, 3) = <<"absent">>
  /\ lookup(buckets, values_, bins_, 5) = <<5, 1, "public">>
  /\ lookup(buckets, values_, bins_, 1) = <<1, 2, "private">>
  /\ entries_ = interned - 1

\* The bindings lookup can reach, and a bucket without its next link.
Bindings(bs, vs, bins) ==
  {lookup(bs, vs, bins, name) : name \in Names} \ {<<"absent">>}
Fields(b) == <<b.name, b.visibility, b.method_id, b.method>>

\* C12: a store step that resizes doubles bins and the values array; every
\* bucket that existed keeps its name, method and visibility (only next links
\* are rewritten), so every binding reachable before is reachable after, the
\* only new binding is the one being stored, entries counts exactly the
\* buckets reachable after, and every bucket sits in the chain of slot
\* hash(name) & (bins - 1) of the new array.
C12_ResizePreservesContents ==
  [][bins_' # bins_ =>
       /\ bins_' = 2 * bins_
       /\ Len(values_') = bins_'
       /\ Len(buckets') = Len(buckets) + 1
       /\ \A b \in 1..Len(buckets) : Fields(buckets'[b]) = Fields(buckets[b])
       /\ Bindings(buckets, values_, bins_) \subseteq Bindings(buckets', values_', bins_')
       /\ Cardinality(Bindings(buckets', values_', bins_')) =
            Cardinality(Bindings(buckets, values_, bins_)) + 1
       /\ entries_' = entries_ + 1
       /\ entries_' = Len(Reachable(buckets', values_', 1))
       /\ entries_' = Cardinality(Bindings(buckets', values_', bins_'))
       /\ \A i \in 1..bins_' :
            LET chain == Chain(buckets', values_'[i]) IN
            \A k \in 1..Len(chain) : find_bin(buckets'[chain[k]].name, bins_') = i]_vars

\* The table has been resized to 32 bins, with buckets that shared a chain of
\* the old array in different chains of the new one, and a chain of two.
C12_Witness ==
  /\ bins_ = 2 * METHODTABLE_MIN_SIZE
  /\ \E i \in 1..bins_ : Len(Chain(buckets, values_[i])) >= 2
  /\ \E m, n \in ReachableNames :
       /\ m # n
       /\ find_bin(m, METHODTABLE_MIN_SIZE) = find_bin(n, METHODTABLE_MIN_SIZE)
       /\ find_bin(m, bins_) # find_bin(n, bins_)

RECURSIVE IsPowerOfTwo(_)
IsPowerOfTwo(n) == n = 1 \/ (n > 1 /\ n % 2 = 0 /\ IsPowerOfTwo(n \div 2))

BinsInvariant ==
  /\ IsPowerOfTwo(bins_)
  /\ bins_ >= METHODTABLE_MIN_SIZE
  /\ Len(values_) = bins_
  /\ entries_ <= bins_
  /\ entries_ >= METHODTABLE_MIN_SIZE => bins_ >= 2 * METHODTABLE_MIN_SIZE

\* C13: before and after every mutation bins is a power of two not below 16
\* and entries does not exceed bins; a store that brings entries up to bins
\* doubles bins, so a table that has held 16 names has at least 32 bins; and
\* no mutation, remove included, makes bins smaller.
C13_BinsPowerOfTwoLoadBounded ==
  [][/\ BinsInvariant
     /\ BinsInvariant'
     /\ bins_' >= bins_
     /\ (entries_' = entries_ + 1 /\ entries_' = bins_) => bins_' = 2 * bins_
     /\ (interned' = METHODTABLE_MIN_SIZE /\ entries_' = METHODTABLE_MIN_SIZE) =>
          bins_' = 2 * METHODTABLE_MIN_SIZE]_vars

\* The table has doubled to 32 bins and removes have brought entries back
\* below 16.
C13_Witness ==
  /\ bins_ = 2 * METHODTABLE_MIN_SIZE
  /\ entries_ < METHODTABLE_MIN_SIZE
  /\ interned >= METHODTABLE_MIN_SIZE

\* C14: a lookup that runs while the writer stores returns, for its name, a
\* binding that store was called with (the latest or an earlier one, never a
\* mix of two), never a bucket of another name, and never absent when the
\* name was committed before the lookup began.
C14_LookupCommittedNeverTorn ==
  rlast.name # 0 =>
    /\ rlast.res = <<"absent">> => ~rlast.known
    /\ rlast.res # <<"absent">> =>
         /\ rlast.res[1] = rlast.name
         /\ rlast.res \in stored

\* The pairs of a lines table: its start ips and lines, numbered from 0.
NPairs(ls) == Len(ls.fields) \div 2
StartIp(ls, k) == ls.fields[2 * k + 1]
LineOf(ls, k) == ls.fields[2 * k + 2]
Enclosing(ls, ip) ==
  {k \in 0..(NPairs(ls) - 2) : StartIp(ls, k) <= ip /\ ip < StartIp(ls, k + 1)}

\* C15: line(ip) is the line of the first pair whose start ip is at or below
\* ip with the next pair's start ip above it; without such a pair it is the
\* last recorded line; without a lines table it is -3.
C15_LineOfEnclosingPair ==
  lquery.asked =>
    lquery.line =
      IF lines.nil_p THEN -3
      ELSE IF Enclosing(lines, lquery.ip) = {} THEN LineOf(lines, NPairs(lines) - 1)
      ELSE LineOf(lines, CHOOSE k \in Enclosing(lines, lquery.ip) :
                           \A j \in Enclosing(lines, lquery.ip) : k <= j)

\* line(ip) has passed over the first pair and returned the line of the
\* second of three pairs, which is not the last line.
C15_Witness ==
  /\ lquery.asked
  /\ ~lines.nil_p
  /\ NPairs(lines) = 3
  /\ Enclosing(lines, lquery.ip) = {1}
  /\ lquery.line = LineOf(lines, 1)
  /\ lquery.line # LineOf(lines, 2)

Ordered(ls) ==
  \A k \in 0..(NPairs(ls) - 2) :
    /\ StartIp(ls, k) <= StartIp(ls, k + 1)
    /\ LineOf(ls, k) <= LineOf(ls, k + 1)

C17_DupResetsCopyOnly ==
  [][/\ \A d \in Codes :
          (~code[d].alive /\ code'[d].alive) =>
            /\ \E c \in Codes \ {d} :
                 /\ code[c].alive
                 /\ code'[d] = [code[c] EXCEPT !.execute = "default_executor",
                                               !.machine_code = Absent,
                                               !.lock = Free]
            /\ \A e \in Codes \ {d} : code'[e] = code[e]
            /\ mcode' = mcode
            /\ bptab' = bptab
     /\ \A t \in threads :
          LET c == th'[t].c IN
          /\ (th[t].pc = "idle" /\ th'[t].pc # "idle"
                /\ th'[t].top = "default_executor"
                /\ code[c].execute = "default_executor") =>
               th'[t].pc = "i_read"
          /\ (th[t].top = "default_executor" /\ th[t].pc \in {"i_read", "i_unlock"}
                /\ th'[t].pc = "dd_call") =>
               /\ code'[c].machine_code # Absent
               /\ code'[c].machine_code = th'[t].m
               /\ mcode'[th'[t].m].owner = c
               /\ \A e \in Codes \ {c} :
                    code'[e].machine_code # code'[c].machine_code]_vars

\* The copy of an internalized code object has been dispatched: both hold a
\* MachineCode, each its own, and the original's executor is its fallback.
C17_Witness ==
  /\ last.op = "default_executor" /\ last.c = 2 /\ last.kind = "invoked"
  /\ code[1].machine_code # Absent
  /\ code[1].execute # "default_executor"
  /\ code[2].machine_code # Absent
  /\ mcode[code[2].machine_code].owner = 2
  /\ mcode[code[1].machine_code].owner = 1

\* C18: a thread that waits for the lock of a code object inside
\* internalize gets past it, and a thread inside internalize leaves it.
InInternalize(t) ==
  th[t].pc \in {"i_read", "i_lock", "i_check", "i_init", "i_publish", "i_setexec",
                "i_unlock"}

C18_InternalizeReturns ==
  \A t \in AllThreads : InInternalize(t) ~> ~InInternalize(t)

\* A thread waits for the lock while the thread that holds it has published
\* the MachineCode and is about to release the lock.
C18_Witness ==
  \E t \in threads, u \in threads :
    /\ th[t].pc = "i_lock"
    /\ th[u].pc = "i_unlock"
    /\ th[u].c = th[t].c
    /\ code[th[t].c].lock = u
    /\ code[th[t].c].machine_code = th[u].m

\* C19: the executor that default_executor invokes once its internalize has
\* returned is not default_executor.
C19_DispatchLeavesDefault ==
  (last.op = "default_executor" /\ last.kind = "invoked") =>
    last.x # "default_executor"

\* C20 as stated: primitive_failed calls what specialized_executor would call
\* when a slot matches the receiver's class data, and MachineCode::execute
\* when none does.
C20_PrimitiveFailedMissInterprets ==
  [][(last'.op = "primitive_failed" /\ ops' # ops) =>
       LET v == code[last'.c].machine_code
           class_id == last'.a.class_id
           serial_id == last'.a.serial_id
       IN last'.x = IF CacheHits(v, class_id, serial_id) # {}
                      THEN SpecializedTarget(v, class_id, serial_id)
                      ELSE "MachineCode::execute"]_vars

\* C20 amended: when no slot matches, primitive_failed calls the
\* unspecialized executor if one is set, and MachineCode::execute only when
\* none is set.
C20_PrimitiveFailedMissUnspecialized ==
  [][(last'.op = "primitive_failed" /\ ops' # ops) =>
       LET v == code[last'.c].machine_code
           class_id == last'.a.class_id
           serial_id == last'.a.serial_id
       IN last'.x = IF CacheHits(v, class_id, serial_id) # {}
                      THEN SpecializedTarget(v, class_id, serial_id)
                      ELSE IF mcode[v].unspecialized # "null"
                      THEN mcode[v].unspecialized
                      ELSE "MachineCode::execute"]_vars

\* primitive_failed has missed a cache that holds a registration of the
\* receiver's class at another serial, with an unspecialized executor set,
\* and has called that executor.
C20_Witness ==
  /\ last.op = "primitive_failed"
  /\ last.v = 0
  /\ last.x \in JitExecs
  /\ LET v == code[last.c].machine_code IN
     /\ mcode[v].unspecialized = last.x
     /\ \E i \in Slots : mcode[v].specializations[i].class_id = last.a.class_id

\* The slot the claim names: the lowest slot that is empty or holds the
\* class id, and slot 0 when there is none.
NamedSlot(v, class_id) ==
  LET fits == {i \in Slots : mcode[v].specializations[i].class_id \in {0, class_id}}
  IN IF fits = {} THEN 0 ELSE CHOOSE i \in fits : \A j \in fits : i <= j

\* C21: every step of add_specialized on an internalized code object writes
\* only the slot the claim names, which holds the registration when the call
\* returns; nothing else of any MachineCode changes but the execute status;
\* the executor becomes specialized_executor at the end of the call when the
\* code has no primitive and is left alone when it has one; a call that
\* finds machine_code absent changes nothing.
C21_AddSpecializedWritesOneSlot ==
  [][\A t \in threads :
       (th[t].top = "add_specialized" /\ th[t].pc # "idle" /\ th'[t] # th[t]) =>
         LET c == th[t].c
             v == code[c].machine_code
             a == th[t].a
         IN IF th[t].pc = "as_scan" /\ v = Absent
              THEN /\ code' = code /\ mcode' = mcode
                   /\ th'[t].pc = "idle" /\ last'.kind = "ignored"
              ELSE /\ th[t].pc = "as_scan" =>
                        /\ th'[t].i = NamedSlot(v, a.class_id)
                        /\ code' = code /\ mcode' = mcode
                   /\ th[t].pc # "as_scan" =>
                        /\ th[t].i = NamedSlot(v, a.class_id)
                        /\ \A m \in 1..Len(mcode) :
                             /\ [mcode'[m] EXCEPT !.specializations = <<>>,
                                                  !.execute_status = "any"] =
                                  [mcode[m] EXCEPT !.specializations = <<>>,
                                                  !.execute_status = "any"]
                             /\ \A i \in Slots :
                                  (m # v \/ i # th[t].i) =>
                                    mcode'[m].specializations[i] =
                                      mcode[m].specializations[i]
                   /\ th[t].pc # "as_finish" => code' = code
                   /\ th[t].pc = "as_finish" =>
                        /\ mcode'[v].specializations[th[t].i] =
                             [class_id |-> a.class_id, serial_id |-> a.serial_id,
                              execute |-> a.exec]
                        /\ last'.v = th[t].i
                        /\ \A d \in Codes \ {c} : code'[d] = code[d]
                        /\ code'[c] =
                             IF code[c].primitive THEN code[c]
                             ELSE [code[c] EXCEPT !.execute = "specialized_executor"]]_vars

\* The cache of a code object with a primitive was full of other classes:
\* add_specialized has overwritten slot 0, left slot 1 alone and left the
\* primitive as the executor.
C21_Witness ==
  /\ AllIdle
  /\ last.op = "add_specialized" /\ last.kind = "void" /\ last.v = 0
  /\ code[last.c].primitive
  /\ code[last.c].execute = "primitive"
  /\ LET v == code[last.c].machine_code IN
     /\ mcode[v].specializations[0].class_id = last.a.class_id
     /\ \A i \in Slots \ {0} :
          mcode[v].specializations[i].class_id \notin {0, last.a.class_id}
     /\ Cardinality(everReg[last.c]) > cMaxSpecializations

Occupied(v) == {i \in Slots : mcode[v].specializations[i].class_id # 0}

CacheWellFormed(v) ==
  /\ \A i, j \in Occupied(v) :
       mcode[v].specializations[i].class_id = mcode[v].specializations[j].class_id
         => i = j
  /\ \A i \in Occupied(v) : \A j \in Slots : j < i => j \in Occupied(v)
  /\ \A i \in Occupied(v) : mcode[v].specializations[i].execute # "null"

====
